---------------------------- MODULE Spec2Model ----------------------------
(***************************************************************************)
(* A model of the RESP protocol engine of tonge3199/Redis-go:              *)
(*   - the reply value model and its serialization (redis/protocol),       *)
(*   - the streaming decoder parse0 / parseArray / parseBulkString /       *)
(*     parseRDBBulkString and the unbuffered Payload channel (redis/parser)*)
(*   - the TCP server ListenAndServeWithSignal / ListenAndServe (tcp),     *)
(*   - the logging functions of package logger (lib/logger).               *)
(* The decoder runs under Spec, the serializer under ReplySpec, the server *)
(* under ServerSpec (with fairness: ServerFairSpec), the logger under      *)
(* LoggerSpec.                                                             *)
(*                                                                         *)
(* A byte is a one-character string; a byte string is a sequence of bytes. *)
(* A Go []byte is a record [isNil, data], so that a nil slice and an empty *)
(* slice stay distinct.  A Go int64 is kept as sign and decimal magnitude, *)
(* so that values near 2^63 are exact.                                     *)
(***************************************************************************)
EXTENDS Integers, Sequences, FiniteSets, TLC

(***************************************************************************)
(* Bytes and byte strings                                                  *)
(***************************************************************************)
CR == "\r"
LF == "\n"
CRLF == <<CR, LF>>

DigitChars == <<"0", "1", "2", "3", "4", "5", "6", "7", "8", "9">>

IsDigit(c) == \E d \in 1..10 : DigitChars[d] = c

DigitVal(c) == (CHOOSE d \in 1..10 : DigitChars[d] = c) - 1

\* s[from..] in Go slice notation (0-based from, to the end)
Drop(s, k) == SubSeq(s, k + 1, Len(s))

Take(s, k) == SubSeq(s, 1, k)

Last(s) == s[Len(s)]

RECURSIVE Concat(_)
Concat(ss) == IF ss = <<>> THEN <<>> ELSE Head(ss) \o Concat(Tail(ss))

\* every sequence over S of length lo..hi
SeqsOf(S, lo, hi) == UNION {[1..n -> S] : n \in lo..hi}

HasPrefix(s, p) == Len(s) >= Len(p) /\ Take(s, Len(p)) = p

HasSuffix(s, p) == Len(s) >= Len(p) /\ Drop(s, Len(s) - Len(p)) = p

TrimSuffix(s, p) == IF HasSuffix(s, p) THEN Take(s, Len(s) - Len(p)) ELSE s

\* index (1-based) of the first byte c of s, 0 when there is none
IndexByte(s, c) ==
    IF \E k \in 1..Len(s) : s[k] = c
    THEN CHOOSE k \in 1..Len(s) : s[k] = c /\ \A j \in 1..(k - 1) : s[j] # c
    ELSE 0

\* mutant of Split: the tokens between runs of separators, as bytes.Fields gives them
SplitFields(s, c) ==
    LET starts == {k \in 1..Len(s) : s[k] # c /\ (k = 1 \/ s[k - 1] = c)}
        EndOf(k) == CHOOSE e \in k..Len(s) :
                        /\ \A j \in k..e : s[j] # c
                        /\ (e = Len(s) \/ s[e + 1] = c)
        Nth(n) == CHOOSE k \in starts : Cardinality({j \in starts : j < k}) = n - 1
    IN  [n \in 1..Cardinality(starts) |-> SubSeq(s, Nth(n), EndOf(Nth(n)))]

\* bytes.Split(s, sep) for a one-byte separator: never nil, n+1 tokens for n separators
RECURSIVE Split(_, _)
Split(s, c) ==
    LET k == IndexByte(s, c)
    IN  IF k = 0 THEN <<s>> ELSE <<Take(s, k - 1)>> \o Split(Drop(s, k), c)

(***************************************************************************)
(* Go slices                                                               *)
(***************************************************************************)
NilSlice == [isNil |-> TRUE, data |-> <<>>]

Slice(b) == [isNil |-> FALSE, data |-> b]

(***************************************************************************)
(* Go integers: [neg, mag] with mag a decimal magnitude, no leading zeros  *)
(***************************************************************************)
RECURSIVE StripZeros(_)
StripZeros(ds) ==
    IF Len(ds) > 1 /\ ds[1] = "0" THEN StripZeros(Tail(ds)) ELSE ds

\* a < b for magnitudes without leading zeros
RECURSIVE MagLess(_, _)
MagLess(a, b) ==
    IF Len(a) # Len(b) THEN Len(a) < Len(b)
    ELSE IF a = <<>> THEN FALSE
    ELSE IF a[1] # b[1] THEN DigitVal(a[1]) < DigitVal(b[1])
    ELSE MagLess(Tail(a), Tail(b))

MagLeq(a, b) == a = b \/ MagLess(a, b)

\* 2^63 - 1, 2^63 - 2, 2^63, 2^31 - 1, 2^31, and the runtime's allocation limit 2^48
MaxInt64Mag == <<"9","2","2","3","3","7","2","0","3","6","8","5","4","7","7","5","8","0","7">>
MaxInt64Less1Mag == <<"9","2","2","3","3","7","2","0","3","6","8","5","4","7","7","5","8","0","6">>
MinInt64Mag == <<"9","2","2","3","3","7","2","0","3","6","8","5","4","7","7","5","8","0","8">>
MaxInt32Mag == <<"2","1","4","7","4","8","3","6","4","7">>
MinInt32Mag == <<"2","1","4","7","4","8","3","6","4","8">>
MaxAllocMag == <<"2","8","1","4","7","4","9","7","6","7","1","0","6","5","6">>
MaxAllocLess1Mag == <<"2","8","1","4","7","4","9","7","6","7","1","0","6","5","5">>

IntOf(neg, mag) == [neg |-> neg /\ mag # <<"0">>, mag |-> mag]

RECURSIVE MagToNat(_)
MagToNat(ds) ==
    IF ds = <<>> THEN 0 ELSE 10 * MagToNat(Take(ds, Len(ds) - 1)) + DigitVal(Last(ds))

RECURSIVE NatToMag(_)
NatToMag(n) ==
    IF n < 10 THEN <<DigitChars[n + 1]>>
    ELSE NatToMag(n \div 10) \o <<DigitChars[(n % 10) + 1]>>

\* the values a model integer can hold: at most nine decimal digits
IsSmall(v) == Len(v.mag) <= 9

ToInt(v) == IF v.neg THEN 0 - MagToNat(v.mag) ELSE MagToNat(v.mag)

FromInt(n) == IF n < 0 THEN IntOf(TRUE, NatToMag(0 - n)) ELSE IntOf(FALSE, NatToMag(n))

IntLess(v, n) == IF IsSmall(v) THEN ToInt(v) < n ELSE v.neg

\* strconv.ParseInt(s, 10, bitSize): [err, v]
ParseInt(s, bitSize) ==
    LET signed == s # <<>> /\ s[1] \in {"+", "-"}
        neg    == s # <<>> /\ s[1] = "-"
        ds     == IF signed THEN Tail(s) ELSE s
        mag    == StripZeros(ds)
        limit  == IF bitSize = 64
                  THEN (IF neg THEN MinInt64Mag ELSE MaxInt64Mag)
                  ELSE (IF neg THEN MinInt32Mag ELSE MaxInt32Mag)
    IN  IF ds = <<>> \/ \E k \in 1..Len(ds) : ~IsDigit(ds[k])
        THEN [err |-> TRUE, v |-> IntOf(FALSE, <<"0">>)]
        ELSE IF ~MagLeq(mag, limit)
        THEN [err |-> TRUE, v |-> IntOf(neg, limit)]
        ELSE [err |-> FALSE, v |-> IntOf(neg, mag)]

\* strconv.FormatInt(v, 10) and strconv.Itoa(n)
FormatInt(v) == IF v.neg THEN <<"-">> \o v.mag ELSE v.mag

Itoa(n) == FormatInt(FromInt(n))


(***************************************************************************)
(* Reply values (redis/protocol) and their serialization                   *)
(***************************************************************************)
MakeBulkReply(arg) == [kind |-> "Bulk", Arg |-> arg]

MakeMultiBulkReply(args) == [kind |-> "MultiBulk", Args |-> args]

MakeMultiRawReply(replies) == [kind |-> "MultiRaw", Replies |-> replies]

MakeStatusReply(status) == [kind |-> "Status", Status |-> status]

MakeIntReply(code) == [kind |-> "Int", Code |-> code]

MakeErrReply(status) == [kind |-> "Err", Status |-> status]

\* protocol.MakeNullBulkReply and protocol.MakeEmptyMultiBulkReply, called by
\* the decoder: Bulk(absent), serialized "$-1\r\n", and the designated empty
\* array, serialized "*0\r\n".
MakeNullBulkReply == [kind |-> "NullBulk"]

MakeEmptyMultiBulkReply == [kind |-> "EmptyMultiBulk"]

nullBulkBytes == <<"$", "-", "1">> \o CRLF

emptyMultiBulkBytes == <<"*", "0">> \o CRLF

\* mutant of BulkToBytes: a zero-length Arg taken for an absent one
BulkToBytesEmptyAsNull(r) ==
    IF Len(r.Arg.data) = 0 THEN nullBulkBytes
    ELSE <<"$">> \o Itoa(Len(r.Arg.data)) \o CRLF \o r.Arg.data \o CRLF

BulkToBytes(r) ==
    IF r.Arg.isNil THEN nullBulkBytes
    ELSE <<"$">> \o Itoa(Len(r.Arg.data)) \o CRLF \o r.Arg.data \o CRLF

\* mutant of MultiBulkArgBytes: an absent element written as an empty one
MultiBulkArgBytesNoNull(arg) ==
    <<"$">> \o Itoa(Len(arg.data)) \o CRLF \o arg.data \o CRLF

\* the writes of the second loop of MultiBulkReply.ToBytes, one element each
MultiBulkArgBytes(arg) ==
    IF arg.isNil THEN <<"$", "-", "1">> \o CRLF
    ELSE <<"$">> \o Itoa(Len(arg.data)) \o CRLF \o arg.data \o CRLF

MultiBulkToBytes(r) ==
    <<"*">> \o Itoa(Len(r.Args)) \o CRLF
        \o Concat([k \in 1..Len(r.Args) |-> MultiBulkArgBytes(r.Args[k])])

\* mutant of StatusToBytes: the line terminator is left out
StatusToBytesUnterminated(r) == <<"+">> \o r.Status

StatusToBytes(r) == <<"+">> \o r.Status \o CRLF

IntToBytes(r) == <<":">> \o FormatInt(r.Code) \o CRLF

ErrToBytes(r) == <<"-">> \o r.Status \o CRLF

\* reply.ToBytes() through the redis.Reply interface
RECURSIVE ToBytes(_)
ToBytes(r) ==
    CASE r.kind = "Bulk" -> BulkToBytes(r)
      [] r.kind = "MultiBulk" -> MultiBulkToBytes(r)
      [] r.kind = "MultiRaw" ->
            <<"*">> \o Itoa(Len(r.Replies)) \o CRLF
                \o Concat([k \in 1..Len(r.Replies) |-> ToBytes(r.Replies[k])])
      [] r.kind = "Status" -> StatusToBytes(r)
      [] r.kind = "Int" -> IntToBytes(r)
      [] r.kind = "Err" -> ErrToBytes(r)
      [] r.kind = "NullBulk" -> nullBulkBytes
      [] r.kind = "EmptyMultiBulk" -> emptyMultiBulkBytes

\* mutant of ArgBufLen: the decimal length of an element counted as one byte
ArgBufLenOneDigit(arg) ==
    IF arg.isNil THEN 3 + 2
    ELSE 1 + 1 + 2 + Len(arg.data) + 2

\* the length MultiBulkReply.ToBytes adds to bufLen for one element
ArgBufLen(arg) ==
    IF arg.isNil THEN 3 + 2
    ELSE 1 + Len(Itoa(Len(arg.data))) + 2 + Len(arg.data) + 2

\* a Go error value: nil, or errors.New(msg)
NilError == [isNil |-> TRUE, msg |-> <<>>]

NewError(msg) == [isNil |-> FALSE, msg |-> msg]

EmptyReplyText == <<"e", "m", "p", "t", "y", " ", "r", "e", "p", "l", "y">>

\* Try2ErrorReply after str := string(reply.ToBytes())
toError(str) ==
    IF Len(str) = 0 THEN NewError(EmptyReplyText)
    ELSE IF str[1] # "-" THEN NilError
    ELSE NewError(Drop(str, 1))

Try2ErrorReply(r) == toError(ToBytes(r))

(***************************************************************************)
(* Payloads and errors (redis/parser)                                      *)
(***************************************************************************)
NoReply == [kind |-> "nil"]

NoErr == "nil"

\* io.EOF, io.ErrUnexpectedEOF and the errors.New values of the parser; a
\* protocol error keeps the fixed part of its message
ErrEOF == "EOF"
ErrUnexpectedEOF == "unexpected EOF"
ErrFailedRead == "failed to read bytes"
ErrEmptyHeader == "empty header"
ErrIllegalBulkHeader == "illegal bulk header"
ErrIllegalNumber == "protocol error: illegal number"
ErrIllegalArrayHeader == "protocol error: illegal array header"
ErrIllegalBulkStringHeader == "protocol error: illegal bulk string header"

DataPayload(reply) == [Data |-> reply, Err |-> NoErr]

\* mutant of ErrPayload: the error travels with an Err reply made from it
ErrPayloadWithReply(err) == [Data |-> MakeErrReply(err), Err |-> err]

ErrPayload(err) == [Data |-> NoReply, Err |-> err]

(***************************************************************************)
(* The peer: what is put on the wire.  A frame is [kind, bytes, vals],     *)
(* vals being the reply values the frame denotes by the wire format.       *)
(***************************************************************************)
MaxFrames == 2
MaxCutFrames == 1
MaxElems == 2

Frame(kind, bytes, vals) == [kind |-> kind, bytes |-> bytes, vals |-> vals]

FullResyncText == <<"F", "U", "L", "L", "R", "E", "S", "Y", "N", "C">>

Texts == {<<>>, <<"O", "K">>}

IntTexts == {<<"0">>, <<"-", "1">>, <<"1", "2">>}

Bodies == {<<>>, <<"a">>, <<LF>>, <<CR, LF>>, <<"$">>}

ElemBodies == {<<"a">>, <<"b">>}

RawBodies == {<<"A">>, <<"A", "B">>}

BulkBytes(b) == <<"$">> \o NatToMag(Len(b)) \o CRLF \o b \o CRLF

ArrayBytes(elems) ==
    <<"*">> \o NatToMag(Len(elems)) \o CRLF
        \o Concat([k \in 1..Len(elems) |-> BulkBytes(elems[k])])

StatusFrame(t) == Frame("status", <<"+">> \o t \o CRLF, <<MakeStatusReply(t)>>)

ErrFrame(t) == Frame("err", <<"-">> \o t \o CRLF, <<MakeErrReply(t)>>)

IntFrame(t) == Frame("int", <<":">> \o t \o CRLF, <<MakeIntReply(ParseInt(t, 64).v)>>)

NullBulkFrame == Frame("nullbulk", <<"$", "-", "1">> \o CRLF, <<MakeBulkReply(NilSlice)>>)

BulkFrame(b) == Frame("bulk", BulkBytes(b), <<MakeBulkReply(Slice(b))>>)

EmptyArrayFrame == Frame("emptyarray", <<"*", "0">> \o CRLF, <<MakeMultiBulkReply(<<>>)>>)

ArrayFrame(es) ==
    Frame("array", ArrayBytes(es),
          <<MakeMultiBulkReply([k \in 1..Len(es) |-> Slice(es[k])])>>)

BadIntFrame(t) == Frame("badint", <<":">> \o t \o CRLF, <<>>)

BadBulkFrame(t) == Frame("badbulk", <<"$">> \o t \o CRLF, <<>>)

BadArrayFrame(t) == Frame("badarray", <<"*">> \o t \o CRLF, <<>>)

SkipFrame(l) == Frame("skip", l, <<>>)

InlineFrame(l) == Frame("inline", l \o CRLF, <<>>)

WellFormedKinds ==
    {"status", "err", "int", "nullbulk", "bulk", "emptyarray", "array"}

WellFormedFrames ==
    {StatusFrame(t) : t \in Texts} \cup {ErrFrame(t) : t \in Texts}
        \cup {IntFrame(t) : t \in IntTexts}
        \cup {NullBulkFrame} \cup {BulkFrame(b) : b \in Bodies}
        \cup {EmptyArrayFrame}
        \cup {ArrayFrame(es) : es \in SeqsOf(ElemBodies, 1, MaxElems)}

\* lines a top-level dispatch rejects, with one error each
BadLineFrames ==
    {BadIntFrame(t) : t \in {<<>>, <<"x">>}}
        \cup {BadBulkFrame(t) : t \in {<<"x">>, <<"-", "2">>}}
        \cup {BadArrayFrame(t) : t \in {<<"x">>, <<"-", "1">>, MinInt32Mag}}

\* lines the loop skips, and the inline form
OtherLineFrames ==
    {SkipFrame(l) : l \in {<<LF>>, CRLF, <<"a", LF>>, <<"a", "b", LF>>}}
        \cup {InlineFrame(l) : l \in {<<"a", " ", "b">>, <<"a">>, <<"a", " ", " ", "b">>,
                                      <<" ", "a", " ">>}}

\* element header lines parseArray rejects
BadElemLines ==
    {<<"X", "Y">> \o CRLF, <<"$">> \o CRLF, <<"$", "1", "2", LF>>,
     <<"$", "x">> \o CRLF, <<"$", "-", "2">> \o CRLF}

\* an array of declared count n whose elements are `good` followed by a rejected line
BadElemFrame(n, good, l) ==
    Frame("arraybadelem",
          <<"*">> \o NatToMag(n) \o CRLF
              \o Concat([k \in 1..Len(good) |-> BulkBytes(good[k])]) \o l,
          <<>>)

BadElemFrames ==
    {BadElemFrame(2, <<<<"a">>>>, l) : l \in BadElemLines}
        \cup {BadElemFrame(1, <<>>, <<"X", "Y">> \o CRLF),
              BadElemFrame(2, <<>>, <<"$", "x">> \o CRLF)}

\* an array whose first element has the header "$-1", followed by the elements `rest`
NullElemFrame(rest) ==
    Frame("arraynullelem",
          <<"*">> \o NatToMag(1 + Len(rest)) \o CRLF \o <<"$", "-", "1">> \o CRLF
              \o Concat([k \in 1..Len(rest) |-> BulkBytes(rest[k])]),
          <<>>)

NullElemFrames == {NullElemFrame(<<>>), NullElemFrame(<<<<"a">>>>)}

\* the replication handshake: status line, "$<n>", n raw bytes, no terminator
FullResyncFrames ==
    {Frame("fullresync",
           <<"+">> \o FullResyncText \o CRLF \o <<"$">> \o NatToMag(Len(b)) \o CRLF \o b,
           <<MakeStatusReply(FullResyncText), MakeBulkReply(Slice(b))>>) : b \in RawBodies}

BadRawHeaders ==
    {<<"$", "0">> \o CRLF, <<"$", "-", "1">> \o CRLF, <<"$", "x">> \o CRLF,
     CRLF, <<"$", "1", LF>>}

BadFullResyncFrames ==
    {Frame("fullresyncbad", <<"+">> \o FullResyncText \o CRLF \o h,
           <<MakeStatusReply(FullResyncText)>>) : h \in BadRawHeaders}

\* a bulk header whose length is 2^63 - 1 or 2^63 - 2
HugeBulkFrames ==
    {Frame("bulkhuge", <<"$">> \o m \o CRLF, <<>>) : m \in {MaxInt64Mag, MaxInt64Less1Mag}}

\* the replication handshake with a header line "X1" in place of "$1"
NoDollarFullResyncFrames ==
    {Frame("fullresyncnodollar",
           <<"+">> \o FullResyncText \o CRLF \o <<"X", "1">> \o CRLF \o <<"A">>,
           <<MakeStatusReply(FullResyncText)>>)}

\* a bulk, top-level or as the element of an array, whose body "a" is followed
\* by two bytes that are not CR LF
BadTailFrames ==
    {Frame("bulkbadtail", <<"$", "1">> \o CRLF \o <<"a", "X", "Y">>, <<>>),
     Frame("elembadtail", <<"*", "1">> \o CRLF \o <<"$", "1">> \o CRLF \o <<"a", "X", "Y">>,
           <<>>)}

Frames ==
    WellFormedFrames \cup BadLineFrames \cup OtherLineFrames \cup BadElemFrames
        \cup NullElemFrames \cup FullResyncFrames \cup BadFullResyncFrames
        \cup HugeBulkFrames \cup BadTailFrames \cup NoDollarFullResyncFrames

\* what follows the first frame of a wire: one or two frames of each top-level kind
FollowFrames ==
    {StatusFrame(<<"O", "K">>), ErrFrame(<<"O", "K">>), IntFrame(<<"1", "2">>),
     NullBulkFrame, BulkFrame(<<"a">>), BulkFrame(<<LF>>), EmptyArrayFrame,
     ArrayFrame(<<<<"a">>, <<"b">>>>), BadIntFrame(<<"x">>), SkipFrame(CRLF),
     InlineFrame(<<"a", " ", "b">>)}

WireBytes(w) == Concat([k \in 1..Len(w) |-> w[k].bytes])

\* the first frame is any frame, the later ones are follow frames
Wires ==
    {<<>>} \cup {<<f>> \o t : f \in Frames, t \in SeqsOf(FollowFrames, 0, MaxFrames - 1)}

\* the lengths at which the stream of wire w may end: after its last frame, or,
\* for a short wire, anywhere inside its last frame
Cuts(w) ==
    LET total == Len(WireBytes(w))
    IN  IF w # <<>> /\ Len(w) <= MaxCutFrames
        THEN (total - Len(Last(w).bytes) + 1)..total
        ELSE {total}

(***************************************************************************)
(* The decoder task (parse0 and the functions it calls), the unbuffered    *)
(* channel and the consumer                                                *)
(***************************************************************************)
VARIABLES
    wire,       \* the frames the peer sent
    input,      \* the bytes the reader delivers before it reports the end of the stream
    pos,        \* bytes consumed from the reader so far
    pc,         \* where the decoder task is: loop, send, rdb, array, arraybreak,
                \* close, panic, done
    ch,         \* <<>>, or <<[p, site]>>: the Payload of the send the task is blocked in
    closed,     \* close(ch) was executed
    delivered,  \* the Payloads the consumer has received, in order
    sites,      \* for each of them, the send statement it came from
    nStrs,      \* parseArray: the declared count
    idx,        \* parseArray: the loop variable i
    lines,      \* parseArray: the slice lines
    readFail,   \* -1, or how many Payloads were delivered when a read first failed
    logged,     \* logger.Error was called by the deferred recover
    consumerDone \* the consumer has seen the channel closed

decoderVars == <<wire, input, pos, pc, ch, closed, delivered, sites, nStrs, idx, lines,
                 readFail, logged, consumerDone>>

\* the serializer: one call of reply.ToBytes() followed by Try2ErrorReply
VARIABLES
    reply,      \* the Reply being serialized
    epc,        \* where the call is: idle, start, size, write, bytes, done
    bufLen,     \* MultiBulkReply.ToBytes: the length computed for buf.Grow
    buf,        \* MultiBulkReply.ToBytes: the bytes written to buf so far
    argI,       \* MultiBulkReply.ToBytes: elements handled by the running loop
    out,        \* the bytes ToBytes returned
    errOut      \* the error Try2ErrorReply returned

replyVars == <<reply, epc, bufLen, buf, argI, out, errOut>>

\* the TCP server: ListenAndServe, its watcher goroutine and its handler goroutines
VARIABLES
    lpc,            \* ListenAndServe: idle, accept, store, spawn, wait, returned
    wpc,            \* the watcher goroutine: idle, select, closeListener, closeHandler, done
    hpc,            \* each handler goroutine: none, handle, deferDone, deferDec, finished
    waitDone,       \* the counter of the sync.WaitGroup
    ClientCounter,  \* the package variable
    counterTmp,     \* the value ClientCounter++ has loaded
    errCh,          \* the buffer of errCh, capacity 1
    errChClosed,    \* close(errCh) was executed
    listenerClosed, \* calls of listener.Close() so far
    handlerClosed,  \* calls of handler.Close() so far
    closeChan,      \* idle, sending (a sender is blocked in closeChan <- ...), received
    spc,            \* the signal goroutine: idle, start, recv, got, send
    signalled       \* a stop signal was delivered to the process after signal.Notify

serverVars == <<lpc, wpc, hpc, waitDone, ClientCounter, counterTmp, errCh, errChClosed,
                listenerClosed, handlerClosed, closeChan, spc, signalled>>

\* package logger: the goroutine that calls the logging functions, and the
\* goroutine NewStdoutLogger starts to write the entries
VARIABLES
    called,     \* the levels of the logging calls the caller has made, in order
    entryChan,  \* the buffer of DefaultLogger.entryChan
    written     \* the entries the writer goroutine has passed to log.Logger.Output

loggerVars == <<called, entryChan, written>>

vars == <<decoderVars, replyVars, serverVars, loggerVars>>

MaxConns == 2

Conns == 1..MaxConns

\* no server is running
ServerIdle ==
    /\ lpc = "idle"
    /\ wpc = "idle"
    /\ hpc = [h \in Conns |-> "none"]
    /\ waitDone = 0
    /\ ClientCounter = 0
    /\ counterTmp = 0
    /\ errCh = <<>>
    /\ errChClosed = FALSE
    /\ listenerClosed = 0
    /\ handlerClosed = 0
    /\ closeChan = "idle"
    /\ spc = "idle"
    /\ signalled = FALSE

\* no logging call is made
LoggerIdle ==
    /\ called = <<>>
    /\ entryChan = <<>>
    /\ written = <<>>

\* no serialization is running
ReplyIdle ==
    /\ reply = NoReply
    /\ epc = "idle"
    /\ bufLen = 0
    /\ buf = <<>>
    /\ argI = 0
    /\ out = <<>>
    /\ errOut = NilError

\* no decoder task is running
DecoderIdle ==
    /\ wire = <<>>
    /\ input = <<>>
    /\ pos = 0
    /\ pc = "idle"
    /\ ch = <<>>
    /\ closed = FALSE
    /\ delivered = <<>>
    /\ sites = <<>>
    /\ nStrs = 0
    /\ idx = 0
    /\ lines = <<>>
    /\ readFail = -1
    /\ logged = FALSE
    /\ consumerDone = FALSE

arrayVars == <<nStrs, idx, lines>>

Init ==
    /\ wire \in Wires
    /\ input \in {Take(WireBytes(wire), c) : c \in Cuts(wire)}
    /\ pos = 0
    /\ pc = "loop"
    /\ ch = <<>>
    /\ closed = FALSE
    /\ delivered = <<>>
    /\ sites = <<>>
    /\ nStrs = 0
    /\ idx = 0
    /\ lines = <<>>
    /\ readFail = -1
    /\ logged = FALSE
    /\ consumerDone = FALSE
    /\ ReplyIdle
    /\ ServerIdle
    /\ LoggerIdle

\* reader.ReadBytes('\n') at offset p: the line with its delimiter, or what is
\* left and io.EOF
ReadBytes(p) ==
    LET rest == Drop(input, p)
        k    == IndexByte(rest, LF)
    IN  IF k = 0
        THEN [line |-> rest, err |-> ErrEOF, pos |-> Len(input)]
        ELSE [line |-> Take(rest, k), err |-> NoErr, pos |-> p + k]

\* io.ReadFull(reader, buf) at offset p, len(buf) = n > 0
ReadFull(p, n) ==
    LET avail == Len(input) - p
    IN  IF avail >= n
        THEN [data |-> SubSeq(input, p + 1, p + n), err |-> NoErr, pos |-> p + n]
        ELSE [data |-> <<>>,
              err |-> IF avail = 0 THEN ErrEOF ELSE ErrUnexpectedEOF,
              pos |-> Len(input)]

\* the int64 sum strLen + extra is negative after wrapping
AddWraps(strLen, extra) ==
    /\ ~strLen.neg
    /\ \/ extra >= 1 /\ strLen.mag = MaxInt64Mag
       \/ extra >= 2 /\ strLen.mag = MaxInt64Less1Mag

\* make([]byte, strLen + extra) panics: the length is negative or beyond the
\* runtime's allocation limit
MakePanics(strLen, extra) ==
    \/ AddWraps(strLen, extra)
    \/ /\ ~strLen.neg
       /\ \/ MagLess(MaxAllocMag, strLen.mag)
          \/ extra >= 1 /\ strLen.mag = MaxAllocMag
          \/ extra >= 2 /\ strLen.mag = MaxAllocLess1Mag

\* io.ReadFull into a buffer of strLen + extra bytes; a length beyond the model's
\* integers is longer than any input
ReadBody(p, strLen, extra) ==
    IF IsSmall(strLen) THEN ReadFull(p, ToInt(strLen) + extra)
    ELSE [data |-> <<>>,
          err |-> IF Len(input) - p = 0 THEN ErrEOF ELSE ErrUnexpectedEOF,
          pos |-> Len(input)]

\* the bytes a buffer holds beyond strLen: make([]byte, strLen+2) in
\* parseBulkString and parseArray, make([]byte, strLen) in parseRDBBulkString
BulkPad == 2
ElemPad == 2

\* mutant of RdbPad: the raw read also takes a two-byte terminator
RdbPadWithTerminator == BulkPad

RdbPad == 0

\* mutant of BulkBodyOf: the body is read as a line, up to its first newline
BulkBodyAsLine(data) == TrimSuffix(Take(data, IndexByte(data, LF)), CRLF)

\* body[:len(body)-2], body[:strLen] and body[:]
BulkBodyOf(data) == Take(data, Len(data) - 2)

ElemBodyOf(data, strLen) == Take(data, ToInt(strLen))

\* mutant of RdbBodyOf: the raw body cut like an ordinary bulk body
RdbBodyWithoutTail(data) == Take(data, Len(data) - 2)

RdbBodyOf(data) == data

\* the header tests of parseBulkString (line 260), parseArray (lines 167, 185, 191)
\* and parseRDBBulkString (line 315)
BulkHeaderBad(r) == r.err \/ IntLess(r.v, -1)

ArrayHeaderBad(r) == r.err \/ IntLess(r.v, 0)

ElemLineBad(line) ==
    Len(line) < 4 \/ line[Len(line) - 1] # CR \/ line[1] # "$"

ElemHeaderBad(r) == r.err \/ IntLess(r.v, -1)

\* mutant of RdbHeaderBad: a zero length passes
RdbHeaderBadBelowZero(r) == r.err \/ IntLess(r.v, 0)

RdbHeaderBad(r) == r.err \/ IntLess(r.v, 1)

\* lines := make([][]byte, nStrs)
MakeLines(n) == [k \in 1..n |-> NilSlice]

\* mutant of Offer: the channel has a buffer, the send returns at once
OfferBuffered(p, site) ==
    /\ ch' = <<[p |-> p, site |-> site]>>
    /\ pc' = pc

\* ch <- &Payload{...}: the task blocks in the send at `site`
Offer(p, site) ==
    /\ ch' = <<[p |-> p, site |-> site]>>
    /\ pc' = "send"

\* a read returned an error
NoteReadFail == readFail' = IF readFail = -1 THEN Len(delivered) ELSE readFail

\* mutant of ValidLine: only the length is tested
ValidLineByLength(l) == Len(l) > 2

\* mutant of EmptyElem: an element with the header "$-1" is absent
EmptyElemAbsent == NilSlice

\* parseArray line 195: []byte{}, the element kept for the header "$-1"
EmptyElem == Slice(<<>>)

\* the line of the loop's ReadBytes passes the length and CR test
ValidLine(l) == Len(l) > 2 /\ l[Len(l) - 1] = CR

TopLine == ReadBytes(pos)

Stripped == TrimSuffix(TopLine.line, CRLF)

Dispatch(c) ==
    /\ pc = "loop"
    /\ TopLine.err = NoErr
    /\ ValidLine(TopLine.line)
    /\ Stripped[1] = c

\* parse0 lines 72-79
ReadLineFails ==
    /\ pc = "loop"
    /\ TopLine.err # NoErr
    /\ pos' = TopLine.pos
    /\ NoteReadFail
    /\ Offer(ErrPayload(TopLine.err), "parse0:76")
    /\ UNCHANGED <<loggerVars, replyVars, serverVars, wire, input, closed, delivered, sites, arrayVars, logged, consumerDone>>

\* parse0 lines 81-87
SkipLine ==
    /\ pc = "loop"
    /\ TopLine.err = NoErr
    /\ ~ValidLine(TopLine.line)
    /\ pos' = TopLine.pos
    /\ UNCHANGED <<loggerVars, replyVars, serverVars, wire, input, pc, ch, closed, delivered, sites, arrayVars, readFail,
                   logged, consumerDone>>

\* parse0 lines 94-101
StatusLine ==
    /\ Dispatch("+")
    /\ pos' = TopLine.pos
    /\ Offer(DataPayload(MakeStatusReply(Tail(Stripped))), "parse0:99")
    /\ UNCHANGED <<loggerVars, replyVars, serverVars, wire, input, closed, delivered, sites, arrayVars, readFail, logged,
                   consumerDone>>

\* parse0 lines 112-117
ErrorLine ==
    /\ Dispatch("-")
    /\ pos' = TopLine.pos
    /\ Offer(DataPayload(MakeErrReply(Tail(Stripped))), "parse0:115")
    /\ UNCHANGED <<loggerVars, replyVars, serverVars, wire, input, closed, delivered, sites, arrayVars, readFail, logged,
                   consumerDone>>

\* parse0 lines 118-128
IntegerLine ==
    /\ Dispatch(":")
    /\ pos' = TopLine.pos
    /\ LET r == ParseInt(Tail(Stripped), 64)
       IN  IF r.err
           THEN Offer(ErrPayload(ErrIllegalNumber), "parse0:123")
           ELSE Offer(DataPayload(MakeIntReply(r.v)), "parse0:126")
    /\ UNCHANGED <<loggerVars, replyVars, serverVars, wire, input, closed, delivered, sites, arrayVars, readFail, logged,
                   consumerDone>>

\* parse0 lines 149-155
InlineLine ==
    /\ pc = "loop"
    /\ TopLine.err = NoErr
    /\ ValidLine(TopLine.line)
    /\ Stripped[1] \notin {"+", "-", ":", "$", "*"}
    /\ pos' = TopLine.pos
    /\ LET args == Split(Stripped, " ")
       IN  Offer(DataPayload(MakeMultiBulkReply([k \in 1..Len(args) |-> Slice(args[k])])),
                 "parse0:152")
    /\ UNCHANGED <<loggerVars, replyVars, serverVars, wire, input, closed, delivered, sites, arrayVars, readFail, logged,
                   consumerDone>>

\* parse0 lines 129-138 with parseBulkString, lines 251-292
BulkHeader ==
    /\ Dispatch("$")
    /\ LET r == ParseInt(Tail(Stripped), 64)
           b == ReadBody(TopLine.pos, r.v, BulkPad)
       IN  IF BulkHeaderBad(r)
           THEN /\ pos' = TopLine.pos
                /\ Offer(ErrPayload(ErrIllegalBulkStringHeader), "parseBulkString:264")
                /\ UNCHANGED readFail
           ELSE IF r.v = FromInt(-1)
           THEN /\ pos' = TopLine.pos
                /\ Offer(DataPayload(MakeNullBulkReply), "parseBulkString:271")
                /\ UNCHANGED readFail
           ELSE IF MakePanics(r.v, BulkPad)
           THEN /\ pos' = TopLine.pos
                /\ pc' = "panic"
                /\ UNCHANGED <<ch, readFail>>
           ELSE IF b.err # NoErr
           THEN /\ pos' = b.pos
                /\ NoteReadFail
                /\ Offer(ErrPayload(b.err), "parse0:135")
           ELSE /\ pos' = b.pos
                /\ Offer(DataPayload(MakeBulkReply(Slice(BulkBodyOf(b.data)))),
                         "parseBulkString:285")
                /\ UNCHANGED readFail
    /\ UNCHANGED <<loggerVars, replyVars, serverVars, wire, input, closed, delivered, sites, arrayVars, logged, consumerDone>>

\* parse0 lines 139-148 with parseArray lines 165-176
ArrayHeader ==
    /\ Dispatch("*")
    /\ pos' = TopLine.pos
    /\ LET r == ParseInt(Tail(Stripped), 32)
       IN  IF ArrayHeaderBad(r)
           THEN /\ Offer(ErrPayload(ErrIllegalArrayHeader), "parseArray:168")
                /\ UNCHANGED arrayVars
           ELSE IF r.v = FromInt(0)
           THEN /\ Offer(DataPayload(MakeEmptyMultiBulkReply), "parseArray:171")
                /\ UNCHANGED arrayVars
           ELSE /\ nStrs' = ToInt(r.v)
                /\ lines' = MakeLines(ToInt(r.v))
                /\ idx' = 0
                /\ pc' = "array"
                /\ UNCHANGED ch
    /\ UNCHANGED <<loggerVars, replyVars, serverVars, wire, input, closed, delivered, sites, readFail, logged, consumerDone>>

\* one iteration of the loop of parseArray, lines 177-205; a returned error is
\* sent by parse0 line 145
ArrayElement ==
    /\ pc = "array"
    /\ idx < nStrs
    /\ LET l      == ReadBytes(pos)
           length == Len(l.line)
           r      == ParseInt(SubSeq(l.line, 2, length - 2), 64)
           b      == ReadBody(l.pos, r.v, ElemPad)
       IN  IF l.err # NoErr
           THEN /\ pos' = l.pos
                /\ NoteReadFail
                /\ Offer(ErrPayload(l.err), "parse0:145")
                /\ UNCHANGED arrayVars
           ELSE IF ElemLineBad(l.line)
           THEN /\ pos' = l.pos
                /\ Offer(ErrPayload(ErrIllegalBulkStringHeader), "parseArray:186")
                /\ UNCHANGED <<arrayVars, readFail>>
           ELSE IF ElemHeaderBad(r)
           THEN /\ pos' = l.pos
                /\ Offer(ErrPayload(ErrIllegalBulkStringHeader), "parseArray:192")
                /\ UNCHANGED <<arrayVars, readFail>>
           ELSE IF r.v = FromInt(-1)
           THEN /\ pos' = l.pos
                /\ lines' = Append(lines, EmptyElem)
                /\ idx' = idx + 1
                /\ UNCHANGED <<nStrs, pc, ch, readFail>>
           ELSE IF MakePanics(r.v, ElemPad)
           THEN /\ pos' = l.pos
                /\ pc' = "panic"
                /\ UNCHANGED <<arrayVars, ch, readFail>>
           ELSE IF b.err # NoErr
           THEN /\ pos' = b.pos
                /\ NoteReadFail
                /\ Offer(ErrPayload(b.err), "parse0:145")
                /\ UNCHANGED arrayVars
           ELSE /\ pos' = b.pos
                /\ lines' = Append(lines, Slice(ElemBodyOf(b.data, r.v)))
                /\ idx' = idx + 1
                /\ UNCHANGED <<nStrs, pc, ch, readFail>>
    /\ UNCHANGED <<loggerVars, replyVars, serverVars, wire, input, closed, delivered, sites, logged, consumerDone>>

\* parseArray lines 206-209, reached when the loop ends or breaks
ArrayEmit ==
    /\ \/ pc = "array" /\ idx >= nStrs
       \/ pc = "arraybreak"
    /\ Offer(DataPayload(MakeMultiBulkReply(lines)), "parseArray:206")
    /\ UNCHANGED <<loggerVars, replyVars, serverVars, wire, input, pos, closed, delivered, sites, arrayVars, readFail,
                   logged, consumerDone>>

\* parse0 lines 104-111 with parseRDBBulkString, lines 302-328
RdbBulk ==
    /\ pc = "rdb"
    /\ LET l      == ReadBytes(pos)
           header == TrimSuffix(l.line, CRLF)
           r      == ParseInt(Tail(header), 64)
           b      == ReadBody(l.pos, r.v, RdbPad)
       IN  IF l.err # NoErr
           THEN /\ pos' = l.pos
                /\ NoteReadFail
                /\ Offer(ErrPayload(ErrFailedRead), "parse0:107")
           ELSE IF Len(header) = 0
           THEN /\ pos' = l.pos
                /\ Offer(ErrPayload(ErrEmptyHeader), "parse0:107")
                /\ UNCHANGED readFail
           ELSE IF RdbHeaderBad(r)
           THEN /\ pos' = l.pos
                /\ Offer(ErrPayload(ErrIllegalBulkHeader), "parse0:107")
                /\ UNCHANGED readFail
           ELSE IF MakePanics(r.v, RdbPad)
           THEN /\ pos' = l.pos
                /\ pc' = "panic"
                /\ UNCHANGED <<ch, readFail>>
           ELSE IF b.err # NoErr
           THEN /\ pos' = b.pos
                /\ NoteReadFail
                /\ Offer(ErrPayload(b.err), "parse0:107")
           ELSE /\ pos' = b.pos
                /\ Offer(DataPayload(MakeBulkReply(Slice(RdbBodyOf(b.data)))),
                         "parseRDBBulkString:323")
                /\ UNCHANGED readFail
    /\ UNCHANGED <<loggerVars, replyVars, serverVars, wire, input, closed, delivered, sites, arrayVars, logged, consumerDone>>

\* mutant of AfterSend: the error returned by parseBulkString or parseArray is
\* sent, but parse0 goes on with the loop instead of closing and returning
AfterSendKeepsReading(site, p) ==
    CASE site \in {"parse0:76", "parse0:107"} -> "close"
      [] site = "parse0:99" ->
            IF HasPrefix(p.Data.Status, FullResyncText) THEN "rdb" ELSE "loop"
      [] site \in {"parseArray:186", "parseArray:192"} -> "arraybreak"
      [] OTHER -> "loop"

\* mutant of AfterSend: a rejected top-level header ends the stream
AfterSendRejectionEnds(site, p) ==
    CASE site \in {"parse0:76", "parse0:107", "parse0:135", "parse0:145",
                   "parse0:123", "parseBulkString:264", "parseArray:168"} -> "close"
      [] site = "parse0:99" ->
            IF HasPrefix(p.Data.Status, FullResyncText) THEN "rdb" ELSE "loop"
      [] site \in {"parseArray:186", "parseArray:192"} -> "arraybreak"
      [] OTHER -> "loop"

\* mutant of AfterSend: a rejected element header ends the stream
AfterSendElementErrorEnds(site, p) ==
    CASE site \in {"parse0:76", "parse0:107", "parse0:135", "parse0:145",
                   "parseArray:186", "parseArray:192"} -> "close"
      [] site = "parse0:99" ->
            IF HasPrefix(p.Data.Status, FullResyncText) THEN "rdb" ELSE "loop"
      [] OTHER -> "loop"

\* where the task goes on after the send at `site` of Payload p
AfterSend(site, p) ==
    CASE site \in {"parse0:76", "parse0:107", "parse0:135", "parse0:145"} -> "close"
      [] site = "parse0:99" ->
            IF HasPrefix(p.Data.Status, FullResyncText) THEN "rdb" ELSE "loop"
      [] site \in {"parseArray:186", "parseArray:192"} -> "arraybreak"
      [] OTHER -> "loop"

\* the consumer receives from the channel: the hand-off completes and the
\* blocked send returns
Receive ==
    /\ pc = "send"
    /\ ch # <<>>
    /\ delivered' = Append(delivered, ch[1].p)
    /\ sites' = Append(sites, ch[1].site)
    /\ ch' = <<>>
    /\ pc' = AfterSend(ch[1].site, ch[1].p)
    /\ IF ch[1].site = "parseArray:206"
       THEN nStrs' = 0 /\ idx' = 0 /\ lines' = <<>>
       ELSE UNCHANGED arrayVars
    /\ UNCHANGED <<loggerVars, replyVars, serverVars, wire, input, pos, closed, readFail, logged, consumerDone>>

\* close(ch); return  (parse0 lines 77-78, 108-109, 136-137, 146-147)
Close ==
    /\ pc = "close"
    /\ closed' = TRUE
    /\ pc' = "done"
    /\ UNCHANGED <<loggerVars, replyVars, serverVars, wire, input, pos, ch, delivered, sites, arrayVars, readFail, logged,
                   consumerDone>>

\* mutant of Recover: the fault is logged and the loop goes on
RecoverAndResume ==
    /\ pc = "panic"
    /\ logged' = TRUE
    /\ pc' = "loop"
    /\ UNCHANGED <<loggerVars, replyVars, serverVars, wire, input, pos, ch, closed, delivered, sites, arrayVars,
                   readFail, consumerDone>>

\* the deferred function of parse0, lines 64-68: recover, log, return
Recover ==
    /\ pc = "panic"
    /\ logged' = TRUE
    /\ pc' = "done"
    /\ UNCHANGED <<loggerVars, replyVars, serverVars, wire, input, pos, ch, closed, delivered, sites, arrayVars, readFail,
                   consumerDone>>

\* the consumer's receive on the closed, empty channel
ReceiveClosed ==
    /\ closed
    /\ ch = <<>>
    /\ ~consumerDone
    /\ consumerDone' = TRUE
    /\ UNCHANGED <<loggerVars, replyVars, serverVars, wire, input, pos, pc, ch, closed, delivered, sites, arrayVars,
                   readFail, logged>>

Next ==
    \/ ReadLineFails
    \/ SkipLine
    \/ StatusLine
    \/ ErrorLine
    \/ IntegerLine
    \/ BulkHeader
    \/ ArrayHeader
    \/ ArrayElement
    \/ ArrayEmit
    \/ InlineLine
    \/ RdbBulk
    \/ Receive
    \/ Close
    \/ Recover
    \/ ReceiveClosed

Spec == Init /\ [][Next]_vars

(***************************************************************************)
(* The serializer: reply.ToBytes() on one Reply, MultiBulkReply.ToBytes    *)
(* step by step, then Try2ErrorReply on the same Reply                     *)
(***************************************************************************)
MaxArgs == 3
MaxReplies == 2

TenBytes == [k \in 1..10 |-> "x"]

ErrText == <<"E", "R", "R", " ", "x">>

\* the values an element of MultiBulkReply.Args or a BulkReply.Arg takes
ArgValues == {NilSlice, Slice(<<>>), Slice(<<"a">>), Slice(TenBytes)}

\* every short Args, and one of ten elements
MultiBulkReplies ==
    {MakeMultiBulkReply(a) : a \in SeqsOf(ArgValues, 0, MaxArgs)}
        \cup {MakeMultiBulkReply([k \in 1..10 |-> Slice(<<"a">>)])}

IntCodes ==
    {FromInt(0), FromInt(-1), FromInt(12), IntOf(FALSE, MaxInt64Mag),
     IntOf(TRUE, MinInt64Mag)}

LeafReplies ==
    {MakeBulkReply(v) : v \in ArgValues}
        \cup {MakeStatusReply(t) : t \in {<<>>, <<"O", "K">>}}
        \cup {MakeIntReply(c) : c \in IntCodes}
        \cup {MakeErrReply(t) : t \in {<<>>, ErrText}}
        \cup {MakeNullBulkReply, MakeEmptyMultiBulkReply}

\* what a MultiRawReply holds: replies of every variant, nested ones included
ChildReplies ==
    {MakeBulkReply(NilSlice), MakeBulkReply(Slice(<<"a">>)),
     MakeStatusReply(<<"O", "K">>), MakeIntReply(FromInt(-1)), MakeErrReply(ErrText),
     MakeMultiBulkReply(<<NilSlice, Slice(<<"a">>)>>),
     MakeMultiRawReply(<<>>),
     MakeMultiRawReply(<<MakeBulkReply(Slice(<<"a">>)),
                         MakeMultiBulkReply(<<Slice(<<"a">>)>>)>>)}

MultiRawReplies == {MakeMultiRawReply(c) : c \in SeqsOf(ChildReplies, 0, MaxReplies)}

Replies == MultiBulkReplies \cup LeafReplies \cup MultiRawReplies

ReplyInit ==
    /\ DecoderIdle
    /\ ServerIdle
    /\ LoggerIdle
    /\ reply \in Replies
    /\ epc = "start"
    /\ bufLen = 0
    /\ buf = <<>>
    /\ argI = 0
    /\ out = <<>>
    /\ errOut = NilError

\* MultiBulkReply.ToBytes lines 66-67
SizeHeader ==
    /\ epc = "start"
    /\ reply.kind = "MultiBulk"
    /\ bufLen' = 1 + Len(Itoa(Len(reply.Args))) + 2
    /\ argI' = 0
    /\ epc' = "size"
    /\ UNCHANGED <<loggerVars, decoderVars, serverVars, reply, buf, out, errOut>>

\* one iteration of the loop of lines 68-94
SizeArg ==
    /\ epc = "size"
    /\ argI < Len(reply.Args)
    /\ bufLen' = bufLen + ArgBufLen(reply.Args[argI + 1])
    /\ argI' = argI + 1
    /\ UNCHANGED <<loggerVars, decoderVars, serverVars, reply, epc, buf, out, errOut>>

\* lines 96-105: buf.Grow(bufLen) and the header writes
WriteHeader ==
    /\ epc = "size"
    /\ argI = Len(reply.Args)
    /\ buf' = <<"*">> \o Itoa(Len(reply.Args)) \o CRLF
    /\ argI' = 0
    /\ epc' = "write"
    /\ UNCHANGED <<loggerVars, decoderVars, serverVars, reply, bufLen, out, errOut>>

\* one iteration of the loop of lines 106-122
WriteArg ==
    /\ epc = "write"
    /\ argI < Len(reply.Args)
    /\ buf' = buf \o MultiBulkArgBytes(reply.Args[argI + 1])
    /\ argI' = argI + 1
    /\ UNCHANGED <<loggerVars, decoderVars, serverVars, reply, epc, bufLen, out, errOut>>

\* line 123: return buf.Bytes()
ReturnBuf ==
    /\ epc = "write"
    /\ argI = Len(reply.Args)
    /\ out' = buf
    /\ epc' = "bytes"
    /\ UNCHANGED <<loggerVars, decoderVars, serverVars, reply, bufLen, buf, argI, errOut>>

\* ToBytes of every other variant, which builds its result in one expression
Marshal ==
    /\ epc = "start"
    /\ reply.kind # "MultiBulk"
    /\ out' = ToBytes(reply)
    /\ epc' = "bytes"
    /\ UNCHANGED <<loggerVars, decoderVars, serverVars, reply, bufLen, buf, argI, errOut>>

\* Try2ErrorReply(reply)
ToError ==
    /\ epc = "bytes"
    /\ errOut' = Try2ErrorReply(reply)
    /\ epc' = "done"
    /\ UNCHANGED <<loggerVars, decoderVars, serverVars, reply, bufLen, buf, argI, out>>

ReplyNext ==
    \/ SizeHeader
    \/ SizeArg
    \/ WriteHeader
    \/ WriteArg
    \/ ReturnBuf
    \/ Marshal
    \/ ToError

ReplySpec == ReplyInit /\ [][ReplyNext]_vars

(***************************************************************************)
(* The TCP server: ListenAndServe with its watcher goroutine, the handler  *)
(* goroutines it starts, and the sender on closeChan                       *)
(***************************************************************************)
ServerInit ==
    /\ DecoderIdle
    /\ ReplyIdle
    /\ LoggerIdle
    /\ lpc = "accept"
    /\ wpc = "select"
    /\ hpc = [h \in Conns |-> "none"]
    /\ waitDone = 0
    /\ ClientCounter = 0
    /\ counterTmp = 0
    /\ errCh = <<>>
    /\ errChClosed = FALSE
    /\ listenerClosed = 0
    /\ handlerClosed = 0
    /\ closeChan = "idle"
    /\ spc = "start"
    /\ signalled = FALSE

\* the goroutine of ListenAndServeWithSignal is scheduled and blocks in sig := <-sigCh
SigReceive ==
    /\ spc = "start"
    /\ spc' = "recv"
    /\ UNCHANGED <<loggerVars, decoderVars, replyVars, signalled, lpc, wpc, hpc, waitDone, ClientCounter,
                   counterTmp, errCh, errChClosed, listenerClosed, handlerClosed, closeChan>>

\* a stop signal reaches the process: package signal sends it on the unbuffered
\* sigCh without blocking, so it is handed over only to a receiver that is waiting
SignalDelivered ==
    /\ signalled' = TRUE
    /\ spc' = IF spc = "recv" THEN "got" ELSE spc
    /\ UNCHANGED <<loggerVars, decoderVars, replyVars, lpc, wpc, hpc, waitDone, ClientCounter,
                   counterTmp, errCh, errChClosed, listenerClosed, handlerClosed, closeChan>>

\* the goroutine of ListenAndServeWithSignal received a signal and sends on closeChan
Signal ==
    /\ spc = "got"
    /\ closeChan = "idle"
    /\ closeChan' = "sending"
    /\ spc' = "send"
    /\ UNCHANGED <<loggerVars, decoderVars, replyVars, signalled, lpc, wpc, hpc, waitDone, ClientCounter,
                   counterTmp, errCh, errChClosed, listenerClosed, handlerClosed>>

\* the watcher's select takes case <-closeChan
WatchClose ==
    /\ wpc = "select"
    /\ closeChan = "sending"
    /\ closeChan' = "received"
    /\ wpc' = "closeListener"
    /\ UNCHANGED <<loggerVars, decoderVars, replyVars, spc, signalled, lpc, hpc, waitDone, ClientCounter, counterTmp,
                   errCh, errChClosed, listenerClosed, handlerClosed>>

\* the watcher's select takes case err := <-errCh: a buffered error, or the
\* zero value of the closed channel
WatchErr ==
    /\ wpc = "select"
    /\ errCh # <<>> \/ errChClosed
    /\ errCh' = IF errCh # <<>> THEN Tail(errCh) ELSE errCh
    /\ wpc' = "closeListener"
    /\ UNCHANGED <<loggerVars, decoderVars, replyVars, spc, signalled, lpc, hpc, waitDone, ClientCounter, counterTmp,
                   errChClosed, listenerClosed, handlerClosed, closeChan>>

\* _ = listener.Close()
CloseListener ==
    /\ wpc = "closeListener"
    /\ listenerClosed' = listenerClosed + 1
    /\ wpc' = "closeHandler"
    /\ UNCHANGED <<loggerVars, decoderVars, replyVars, spc, signalled, lpc, hpc, waitDone, ClientCounter, counterTmp,
                   errCh, errChClosed, handlerClosed, closeChan>>

\* mutant of CloseHandler: the watcher goes back to its select after closing
CloseHandlerAndWatchAgain ==
    /\ wpc = "closeHandler"
    /\ handlerClosed' = handlerClosed + 1
    /\ wpc' = "select"
    /\ UNCHANGED <<loggerVars, decoderVars, replyVars, spc, signalled, lpc, hpc, waitDone, ClientCounter,
                   counterTmp, errCh, errChClosed, listenerClosed, closeChan>>

\* _ = handler.Close()
CloseHandler ==
    /\ wpc = "closeHandler"
    /\ handlerClosed' = handlerClosed + 1
    /\ wpc' = "done"
    /\ UNCHANGED <<loggerVars, decoderVars, replyVars, spc, signalled, lpc, hpc, waitDone, ClientCounter, counterTmp,
                   errCh, errChClosed, listenerClosed, closeChan>>

\* listener.Accept() returns a connection; ClientCounter++ loads the counter
AcceptConn ==
    /\ lpc = "accept"
    /\ listenerClosed = 0
    /\ \E h \in Conns : hpc[h] = "none"
    /\ counterTmp' = ClientCounter
    /\ lpc' = "store"
    /\ UNCHANGED <<loggerVars, decoderVars, replyVars, spc, signalled, wpc, hpc, waitDone, ClientCounter, errCh,
                   errChClosed, listenerClosed, handlerClosed, closeChan>>

\* listener.Accept() returns a timeout error: sleep and continue
AcceptTimeout ==
    /\ lpc = "accept"
    /\ listenerClosed = 0
    /\ UNCHANGED vars

\* listener.Accept() returns any other error, as it does once the listener is
\* closed: errCh <- err; break
AcceptFails ==
    /\ lpc = "accept"
    /\ Len(errCh) < 1
    /\ errCh' = Append(errCh, "err")
    /\ lpc' = "wait"
    /\ UNCHANGED <<loggerVars, decoderVars, replyVars, spc, signalled, wpc, hpc, waitDone, ClientCounter, counterTmp,
                   errChClosed, listenerClosed, handlerClosed, closeChan>>

\* ClientCounter++ stores the incremented value
StoreCounter ==
    /\ lpc = "store"
    /\ ClientCounter' = counterTmp + 1
    /\ lpc' = "spawn"
    /\ UNCHANGED <<loggerVars, decoderVars, replyVars, spc, signalled, wpc, hpc, waitDone, counterTmp, errCh,
                   errChClosed, listenerClosed, handlerClosed, closeChan>>

\* waitDone.Add(1) and the go statement
Spawn ==
    /\ lpc = "spawn"
    /\ LET h == CHOOSE c \in Conns : hpc[c] = "none" /\ \A d \in 1..(c - 1) : hpc[d] # "none"
       IN  hpc' = [hpc EXCEPT ![h] = "handle"]
    /\ waitDone' = waitDone + 1
    /\ lpc' = "accept"
    /\ UNCHANGED <<loggerVars, decoderVars, replyVars, spc, signalled, wpc, ClientCounter, counterTmp, errCh,
                   errChClosed, listenerClosed, handlerClosed, closeChan>>

\* handler.Handle(ctx, conn) returns
HandleReturns(h) ==
    /\ hpc[h] = "handle"
    /\ hpc' = [hpc EXCEPT ![h] = "deferDone"]
    /\ UNCHANGED <<loggerVars, decoderVars, replyVars, spc, signalled, lpc, wpc, waitDone, ClientCounter, counterTmp,
                   errCh, errChClosed, listenerClosed, handlerClosed, closeChan>>

\* the deferred function: waitDone.Done()
HandlerDone(h) ==
    /\ hpc[h] = "deferDone"
    /\ waitDone' = waitDone - 1
    /\ hpc' = [hpc EXCEPT ![h] = "deferDec"]
    /\ UNCHANGED <<loggerVars, decoderVars, replyVars, spc, signalled, lpc, wpc, ClientCounter, counterTmp, errCh,
                   errChClosed, listenerClosed, handlerClosed, closeChan>>

\* the deferred function: atomic.AddInt32(&ClientCounter, -1)
HandlerDec(h) ==
    /\ hpc[h] = "deferDec"
    /\ ClientCounter' = ClientCounter - 1
    /\ hpc' = [hpc EXCEPT ![h] = "finished"]
    /\ UNCHANGED <<loggerVars, decoderVars, replyVars, spc, signalled, lpc, wpc, waitDone, counterTmp, errCh,
                   errChClosed, listenerClosed, handlerClosed, closeChan>>

\* mutant of WaitReturns: ListenAndServe returns without waitDone.Wait()
ReturnsWithoutWait ==
    /\ lpc = "wait"
    /\ lpc' = "returned"
    /\ errChClosed' = TRUE
    /\ UNCHANGED <<loggerVars, decoderVars, replyVars, spc, signalled, wpc, hpc, waitDone, ClientCounter, counterTmp,
                   errCh, listenerClosed, handlerClosed, closeChan>>

\* waitDone.Wait() returns, ListenAndServe returns, the deferred close(errCh) runs
WaitReturns ==
    /\ lpc = "wait"
    /\ waitDone = 0
    /\ lpc' = "returned"
    /\ errChClosed' = TRUE
    /\ UNCHANGED <<loggerVars, decoderVars, replyVars, spc, signalled, wpc, hpc, waitDone, ClientCounter, counterTmp,
                   errCh, listenerClosed, handlerClosed, closeChan>>

ServerNext ==
    \/ SigReceive
    \/ SignalDelivered
    \/ Signal
    \/ WatchClose
    \/ WatchErr
    \/ CloseListener
    \/ CloseHandler
    \/ AcceptConn
    \/ AcceptTimeout
    \/ AcceptFails
    \/ StoreCounter
    \/ Spawn
    \/ \E h \in Conns : HandleReturns(h)
    \/ \E h \in Conns : HandlerDone(h)
    \/ \E h \in Conns : HandlerDec(h)
    \/ WaitReturns

ServerSpec == ServerInit /\ [][ServerNext]_vars

\* what the Go scheduler and the net package guarantee: a goroutine that can run
\* does run, a select with a ready case returns, Accept on a closed listener
\* returns an error; and the assumption that every handler.Handle call returns.
\* No connection and no signal is ever required to arrive.
ServerFairness ==
    /\ WF_vars(SigReceive)
    /\ WF_vars(Signal)
    /\ WF_vars(WatchClose \/ WatchErr)
    /\ WF_vars(CloseListener)
    /\ WF_vars(CloseHandler)
    /\ WF_vars(AcceptFails /\ listenerClosed > 0)
    /\ WF_vars(StoreCounter)
    /\ WF_vars(Spawn)
    /\ \A h \in Conns : WF_vars(HandleReturns(h))
    /\ \A h \in Conns : WF_vars(HandlerDone(h))
    /\ \A h \in Conns : WF_vars(HandlerDec(h))
    /\ WF_vars(WaitReturns)

ServerFairSpec == ServerSpec /\ ServerFairness

(***************************************************************************)
(* Package logger: the logging functions, the buffered entryChan and the   *)
(* writer goroutine of NewStdoutLogger                                     *)
(***************************************************************************)
MaxLogCalls == 3

\* the capacity of entryChan (1e5 in the source)
bufferSize == 2

levelFlags == <<"DEBUG", "INFO", "WARNING", "ERROR", "FATAL">>

LoggerInit ==
    /\ DecoderIdle
    /\ ReplyIdle
    /\ ServerIdle
    /\ called = <<>>
    /\ entryChan = <<>>
    /\ written = <<>>

\* Logger.Output: format the message, send the entry on entryChan, return
Output(level) ==
    /\ Len(called) < MaxLogCalls
    /\ Len(entryChan) < bufferSize
    /\ entryChan' = Append(entryChan, [level |-> level, call |-> Len(called) + 1])
    /\ called' = Append(called, level)
    /\ UNCHANGED <<decoderVars, replyVars, serverVars, written>>

\* Debug, Info, Warn, Error
LogBelowFatal == \E k \in 1..4 : Output(levelFlags[k])

\* Fatal
Fatal == Output("FATAL")

\* the writer goroutine: one iteration of for e := range logger.entryChan
WriteEntry ==
    /\ entryChan # <<>>
    /\ written' = Append(written, Head(entryChan))
    /\ entryChan' = Tail(entryChan)
    /\ UNCHANGED <<decoderVars, replyVars, serverVars, called>>

LoggerNext ==
    \/ LogBelowFatal
    \/ Fatal
    \/ WriteEntry

LoggerSpec == LoggerInit /\ [][LoggerNext]_vars

(***************************************************************************)
(* Properties                                                              *)
(***************************************************************************)
Done == pc = "done"

\* the stream ended after the last frame of the wire, not inside it
Untruncated == input = WireBytes(wire)

\* the first frame arrived whole
FirstArrived == wire # <<>> /\ Len(input) >= Len(wire[1].bytes)

\* Bulk(absent) and the designated empty array, as plain Bulk and MultiBulk values
Canon(r) ==
    CASE r.kind = "NullBulk" -> MakeBulkReply(NilSlice)
      [] r.kind = "EmptyMultiBulk" -> MakeMultiBulkReply(<<>>)
      [] OTHER -> r

IsData(p) == p.Err = NoErr /\ p.Data # NoReply

IsError(p) == p.Err # NoErr /\ p.Data = NoReply

TransportErrs == {ErrEOF, ErrUnexpectedEOF, ErrFailedRead}

ProtocolErrs == {ErrIllegalNumber, ErrIllegalArrayHeader, ErrIllegalBulkStringHeader}

\* C1: round trip.  When the wire is one well-formed frame of any kind, the
\* decoder emits one Reply for it and serializing that Reply gives back exactly
\* the bytes of the frame.
C1_RoundTrip ==
    (Done /\ Len(wire) = 1 /\ wire[1].kind \in WellFormedKinds /\ Untruncated)
        => /\ Len(delivered) = 2
           /\ IsData(delivered[1])
           /\ ToBytes(delivered[1].Data) = wire[1].bytes

\* C2: an array header *n, n > 0, followed by n well-formed bulk elements gives
\* exactly one MultiBulk whose elements are the n parsed elements in wire
\* order, and every MultiBulk sent by parseArray has n or zero elements.
C2_ArrayExactlyN ==
    /\ (Done /\ Len(wire) = 1 /\ wire[1].kind = "array" /\ Untruncated)
        => delivered = <<DataPayload(wire[1].vals[1]), ErrPayload(ErrEOF)>>
    /\ (pc = "send" /\ ch[1].site = "parseArray:206")
        => Len(ch[1].p.Data.Args) \in {0, nStrs}

\* C3: a malformed element header inside an array of declared count n > 0
\* gives exactly one protocol error for that array and no MultiBulk.
C3_BadElemNoMultiBulk ==
    (Done /\ Len(wire) = 1 /\ wire[1].kind = "arraybadelem" /\ Untruncated)
        => delivered = <<ErrPayload(ErrIllegalBulkStringHeader), ErrPayload(ErrEOF)>>

\* C4: a read failure is terminal.  Once a read of the decoder has failed, the
\* only Payload that follows is one error Payload carrying a transport error;
\* it is the last Payload delivered, the channel is closed after it, and a
\* closed channel has no send pending or to come.
C4_ReadFailureTerminal ==
    /\ readFail # -1 =>
          /\ pc \in {"send", "close", "done"}
          /\ pc = "send" =>
                /\ Len(delivered) = readFail
                /\ IsError(ch[1].p)
                /\ ch[1].p.Err \in TransportErrs
          /\ pc \in {"close", "done"} =>
                /\ Len(delivered) = readFail + 1
                /\ IsError(Last(delivered))
                /\ Last(delivered).Err \in TransportErrs
          /\ Done => closed
    /\ closed => Done /\ ch = <<>>

\* a read failed in the middle of an array element's body, and the task ended
C4_Witness ==
    /\ Done
    /\ closed
    /\ readFail # -1
    /\ Last(sites) = "parse0:145"
    /\ Last(delivered).Err = ErrUnexpectedEOF

\* the header line of a bulk frame whose body is b
BulkHeaderLen(f) == IndexByte(f.bytes, LF)

\* C5: a top-level bulk header declaring n >= 0 that is followed by fewer than
\* n+2 bytes before the stream ends gives exactly one terminal error Payload,
\* no Bulk Payload, and a closed channel.
C5_ShortBulkBody ==
    (/\ Done
     /\ Len(wire) = 1
     /\ wire[1].kind \in {"bulk", "bulkhuge"}
     /\ Len(input) >= BulkHeaderLen(wire[1])
     /\ wire[1].kind = "bulk" => Len(input) < Len(wire[1].bytes))
        => /\ Len(delivered) = 1
           /\ IsError(delivered[1])
           /\ delivered[1].Err \in TransportErrs
           /\ closed

\* the Payloads the frames of the wire denote, in wire order
WireVals == Concat([k \in 1..Len(wire) |-> wire[k].vals])

\* C6: when the input is the concatenation of k well-formed frames, the
\* consumer receives exactly the k decoded values, one per frame, in wire
\* order, followed only by the end-of-stream error.
C6_FramesInOrder ==
    (Done /\ Untruncated /\ \A k \in 1..Len(wire) : wire[k].kind \in WellFormedKinds)
        => /\ Len(delivered) = Len(wire) + 1
           /\ \A k \in 1..Len(wire) :
                 /\ IsData(delivered[k])
                 /\ Canon(delivered[k].Data) = wire[k].vals[1]
           /\ Last(delivered) = ErrPayload(ErrEOF)

\* the status line of a replication handshake frame, with its terminator
HandshakeLineLen == Len(FullResyncText) + 3

\* the raw bytes of a handshake frame: what follows its "$<n>" header line
RawOf(f) ==
    LET afterStatus == Drop(f.bytes, HandshakeLineLen)
    IN  Drop(afterStatus, IndexByte(afterStatus, LF))

\* C7: a Status line starting with FULLRESYNC, followed by "$<n>" and n raw
\* bytes, gives first the Status Payload and then a Bulk Payload holding
\* exactly those n bytes; the raw-bulk read starts, and its result is sent,
\* only after the Status Payload was delivered.
C7_HandshakeThenRawBulk ==
    /\ (wire # <<>> /\ wire[1].kind = "fullresync" /\ FirstArrived) =>
          /\ Len(delivered) >= 1 =>
                delivered[1] = DataPayload(MakeStatusReply(FullResyncText))
          /\ Len(delivered) >= 2 =>
                delivered[2] = DataPayload(MakeBulkReply(Slice(RawOf(wire[1]))))
          /\ Done => Len(delivered) >= 2
    /\ (pc = "rdb" \/ (pc = "send" /\ ch[1].site \in {"parseRDBBulkString:323", "parse0:107"}))
          => /\ delivered # <<>>
             /\ Last(delivered).Data.kind = "Status"
             /\ HasPrefix(Last(delivered).Data.Status, FullResyncText)

\* the handshake with two raw bytes was decoded into its two Payloads
C7_Witness ==
    /\ wire # <<>>
    /\ wire[1].kind = "fullresync"
    /\ Len(delivered) >= 2
    /\ sites[2] = "parseRDBBulkString:323"
    /\ delivered[2].Data = MakeBulkReply(Slice(<<"A", "B">>))

\* C8: the raw-bulk read consumes the header line and the n payload bytes and
\* nothing more: when its Bulk Payload is handed over, the reader stands right
\* after the n-th payload byte, and the line the loop reads next starts there.
C8_RawBulkConsumesExactlyN ==
    (/\ wire # <<>>
     /\ wire[1].kind = "fullresync"
     /\ pc = "send"
     /\ ch[1].site = "parseRDBBulkString:323")
        => /\ pos = Len(wire[1].bytes)
           /\ Len(wire) >= 2 /\ Untruncated
                 => HasPrefix(wire[2].bytes, TopLine.line)

\* a frame follows the raw bytes and is the line the loop will read next
C8_Witness ==
    /\ Len(wire) = 2
    /\ wire[1].kind = "fullresync"
    /\ wire[2].kind = "int"
    /\ pc = "send"
    /\ ch[1].site = "parseRDBBulkString:323"
    /\ TopLine.line = wire[2].bytes

\* C9: in the raw-bulk sub-mode a header whose length is zero, negative or
\* unparsable is unrecoverable: after the Status Payload exactly one error
\* Payload is sent, the channel is closed, and nothing after the header line
\* is read or decoded.
C9_BadRawHeaderTerminal ==
    (wire # <<>> /\ wire[1].kind = "fullresyncbad" /\ FirstArrived) =>
        /\ pos <= Len(wire[1].bytes)
        /\ Len(delivered) <= 2
        /\ Len(delivered) >= 1 =>
              delivered[1] = DataPayload(MakeStatusReply(FullResyncText))
        /\ Len(delivered) = 2 =>
              /\ IsError(delivered[2])
              /\ delivered[2].Err \in {ErrEmptyHeader, ErrIllegalBulkHeader}
              /\ pc \in {"close", "done"}
        /\ Done => Len(delivered) = 2 /\ closed

\* the bad header was followed by another frame, which stayed unread
C9_Witness ==
    /\ Len(wire) = 2
    /\ wire[1].kind = "fullresyncbad"
    /\ Untruncated
    /\ Done
    /\ closed
    /\ Len(delivered) = 2
    /\ delivered[2].Err = ErrIllegalBulkHeader
    /\ pos < Len(input)

\* the error a top-level line of the given kind is rejected with
RejectionOf(kind) ==
    CASE kind = "badint" -> ErrIllegalNumber
      [] kind = "badbulk" -> ErrIllegalBulkStringHeader
      [] kind = "badarray" -> ErrIllegalArrayHeader

\* C10: a top-level parse error is recoverable: one error Payload is sent for
\* the offending line, only that line is consumed, the channel stays open and
\* the next line on the wire is decoded normally: a frame that follows gives
\* its data Payload (its value; for an array header, the MultiBulk parseArray
\* builds), and then the stream ends with the end-of-stream error.
C10_TopLevelErrorRecoverable ==
    (wire # <<>> /\ wire[1].kind \in {"badint", "badbulk", "badarray"} /\ FirstArrived) =>
        /\ Len(delivered) >= 1 => delivered[1] = ErrPayload(RejectionOf(wire[1].kind))
        /\ Len(delivered) = 0 => pos <= Len(wire[1].bytes)
        /\ Len(delivered) <= 1 => ~closed
        /\ (Len(delivered) = 0 /\ pc = "send") => pos = Len(wire[1].bytes)
        /\ (Len(wire) = 2 /\ wire[2].kind \in WellFormedKinds /\ Untruncated) =>
              /\ Len(delivered) >= 2 =>
                    /\ IsData(delivered[2])
                    /\ wire[2].kind # "array" =>
                          Canon(delivered[2].Data) = wire[2].vals[1]
                    /\ wire[2].kind = "array" => delivered[2].Data.kind = "MultiBulk"
              /\ Done => /\ Len(delivered) = 3
                         /\ delivered[3] = ErrPayload(ErrEOF)

\* a rejected bulk header was followed by a bulk frame, which was decoded
C10_Witness ==
    /\ Len(wire) = 2
    /\ wire[1].kind = "badbulk"
    /\ wire[2].kind = "bulk"
    /\ Done
    /\ Len(delivered) = 3
    /\ delivered[1].Err = ErrIllegalBulkStringHeader
    /\ delivered[2].Data = MakeBulkReply(Slice(<<"a">>))

\* the Payloads sent so far: those received, and the one of a blocked send
SentPayloads ==
    {delivered[k] : k \in 1..Len(delivered)} \cup {ch[k].p : k \in 1..Len(ch)}

\* C11: every Payload sent on the channel carries exactly one of a Reply value
\* and an error: never both, never neither, whatever send statement made it.
C11_ExactlyOneOfDataErr ==
    \A p \in SentPayloads : (p.Data # NoReply) <=> (p.Err = NoErr)

\* a data Payload, a protocol error and the terminal error were all sent
C11_Witness ==
    /\ Done
    /\ Len(delivered) = 3
    /\ IsError(delivered[1])
    /\ delivered[1].Err \in ProtocolErrs
    /\ IsData(delivered[2])
    /\ delivered[3].Err = ErrEOF

\* C12: backpressure.  The channel is unbuffered: at most one Payload is sent
\* and not yet received, the task is blocked in that send, and it reads nothing
\* more from its source until the consumer has received the Payload.
C12_Backpressure ==
    /\ [](Len(ch) <= 1 /\ (ch # <<>> => pc = "send"))
    /\ [][ch # <<>> => (pos' = pos /\ (ch' = ch \/ ch' = <<>>))]_vars

\* a Payload waits for the consumer while a whole frame is still unread
C12_Witness ==
    /\ ch # <<>>
    /\ Len(wire) = 2
    /\ Untruncated
    /\ pos = Len(wire[1].bytes)
    /\ delivered = <<>>

\* C13: arrays are never delivered piecemeal.  No MultiBulk is sent for an
\* array of declared count n before all n elements have been read, and when
\* the stream ends inside the array only the terminal error Payload is sent.
C13_ArrayNotPiecemeal ==
    /\ (pc = "send" /\ ch[1].site = "parseArray:206") => idx = nStrs
    /\ (Done /\ Len(wire) = 1 /\ wire[1].kind = "array"
            /\ Len(input) < Len(wire[1].bytes))
          => /\ Len(delivered) = 1
             /\ IsError(delivered[1])
             /\ delivered[1].Err \in TransportErrs

\* C14: a fault inside the decoder (a panic) is caught by the deferred function
\* of parse0 and logged, the task ends there, and from the fault on no Payload
\* is sent and nothing more is read.
C14_FaultCaught ==
    /\ []((pc = "panic" \/ logged) => ch = <<>>)
    /\ [](logged => pc = "done")
    /\ [][pc = "panic" => (logged' /\ pc' = "done")]_vars
    /\ [][(pc = "panic" \/ logged)
              => (delivered' = delivered /\ ch' = <<>> /\ pos' = pos)]_vars

\* the fault was logged and the task ended with a whole frame left unread
C14_Witness ==
    /\ logged
    /\ Done
    /\ Len(wire) = 2
    /\ Untruncated
    /\ pos = Len(wire[1].bytes)
    /\ delivered = <<>>

\* C15: Try2ErrorReply of an Err reply with text s returns an error whose
\* message is exactly s, of a non-error reply such as Status("OK") it returns
\* no error, and of an empty serialization it returns the "empty reply" error.
C15_ToErrorText ==
    /\ (epc = "done" /\ reply.kind = "Err") => errOut = NewError(reply.Status)
    /\ (epc = "done" /\ reply.kind = "Status") => errOut = NilError
    /\ toError(<<>>) = NewError(EmptyReplyText)

\* the number of decimal digits of n, 0 <= n < 1000
Digits(n) == IF n < 10 THEN 1 ELSE IF n < 100 THEN 2 ELSE 3

\* the sum, over the elements, of 5 for an absent one and of
\* 1 + digits(len) + 2 + len + 2 for a present one
RECURSIVE ElemsLen(_)
ElemsLen(args) ==
    IF args = <<>> THEN 0
    ELSE (IF Head(args).isNil THEN 5
          ELSE 1 + Digits(Len(Head(args).data)) + 2 + Len(Head(args).data) + 2)
         + ElemsLen(Tail(args))

ClosedFormLen(args) == 1 + Digits(Len(args)) + 2 + ElemsLen(args)

\* C16: for every MultiBulk, whatever the mix of present and absent elements,
\* the length computed before the writes is the closed form, the writes never
\* go beyond it, and it is exactly the number of bytes returned.
C16_PresizedExactly ==
    /\ (reply.kind = "MultiBulk" /\ epc = "write")
          => /\ bufLen = ClosedFormLen(reply.Args)
             /\ Len(buf) <= bufLen
    /\ (reply.kind = "MultiBulk" /\ epc \in {"bytes", "done"})
          => /\ bufLen = ClosedFormLen(reply.Args)
             /\ Len(out) = bufLen

\* an absent element, one whose length has two digits, and an empty one
C16_Witness ==
    /\ epc = "bytes"
    /\ reply = MakeMultiBulkReply(<<NilSlice, Slice(TenBytes), Slice(<<>>)>>)
    /\ Len(out) = 4 + 5 + 17 + 6

\* C17: "$-1\r\n" decodes to Bulk(absent) and "$0\r\n\r\n" to Bulk(""), a
\* present value of length zero; the two values differ, and each serializes
\* back to the bytes it was decoded from.
C17_NullVsEmptyBulk ==
    (Untruncated /\ \A k \in 1..Len(wire) : wire[k].kind \in {"nullbulk", "bulk"}) =>
        /\ Done => Len(delivered) = Len(wire) + 1
        /\ \A k \in 1..Len(wire) :
              Len(delivered) >= k =>
                 /\ IsData(delivered[k])
                 /\ wire[k] = NullBulkFrame =>
                       /\ Canon(delivered[k].Data) = MakeBulkReply(NilSlice)
                       /\ delivered[k].Data # MakeBulkReply(Slice(<<>>))
                       /\ ToBytes(delivered[k].Data) = <<"$", "-", "1", CR, LF>>
                 /\ wire[k] = BulkFrame(<<>>) =>
                       /\ delivered[k].Data = MakeBulkReply(Slice(<<>>))
                       /\ ~delivered[k].Data.Arg.isNil
                       /\ ToBytes(delivered[k].Data) = <<"$", "0", CR, LF, CR, LF>>

\* both frames were decoded, one after the other, into different values
C17_Witness ==
    /\ Done
    /\ Untruncated
    /\ wire = <<BulkFrame(<<>>), NullBulkFrame>>
    /\ Len(delivered) = 3
    /\ delivered[1].Data # delivered[2].Data
    /\ ToBytes(delivered[1].Data) # ToBytes(delivered[2].Data)

\* C18: the serialization of every Reply variant (Bulk present or absent,
\* MultiBulk, MultiRaw with nested replies, Status, Int, Err) is not empty and
\* ends with the two bytes CR LF.
C18_EndsWithCRLF ==
    epc \in {"bytes", "done"} => (Len(out) > 0 /\ HasSuffix(out, CRLF))

\* a MultiRaw holding a MultiRaw was serialized
C18_Witness ==
    /\ epc = "bytes"
    /\ reply.kind = "MultiRaw"
    /\ Len(reply.Replies) = 2
    /\ reply.Replies[2].kind = "MultiRaw"
    /\ Len(reply.Replies[2].Replies) = 2
    /\ Len(out) > 4

\* the replies Bulk(e), one for each element e of args
BulksOf(args) == [k \in 1..Len(args) |-> MakeBulkReply(args[k])]

\* C19: MultiBulk(elems).ToBytes() equals MultiRaw of the replies Bulk(e), e in
\* elems: the "*<count>\r\n" header followed by each element's Bulk
\* serialization, an absent element being "$-1\r\n".
C19_MultiBulkAsBulks ==
    (reply.kind = "MultiBulk" /\ epc \in {"bytes", "done"}) =>
        /\ out = ToBytes(MakeMultiRawReply(BulksOf(reply.Args)))
        /\ out = <<"*">> \o NatToMag(Len(reply.Args)) \o CRLF
                    \o Concat([k \in 1..Len(reply.Args) |->
                                  IF reply.Args[k].isNil
                                  THEN <<"$", "-", "1", CR, LF>>
                                  ELSE BulkToBytes(MakeBulkReply(reply.Args[k]))])

\* an absent and a present element were written
C19_Witness ==
    /\ epc = "bytes"
    /\ reply = MakeMultiBulkReply(<<NilSlice, Slice(<<"a">>)>>)
    /\ out = <<"*", "2", CR, LF, "$", "-", "1", CR, LF, "$", "1", CR, LF, "a", CR, LF>>

AcceptErrorSent == lpc \in {"wait", "returned"}

\* C21: once a shutdown signal was sent on closeChan or a non-timeout Accept
\* error occurred, the listener is closed and handler.Close() is called, each
\* exactly once in the run of ListenAndServe: never twice, whichever of the
\* triggers occur and in whatever order, and the listener first.
C21_ClosedExactlyOnce ==
    /\ [](listenerClosed <= 1 /\ handlerClosed <= 1 /\ handlerClosed <= listenerClosed)
    /\ [](listenerClosed > 0 => (closeChan = "received" \/ AcceptErrorSent))
    /\ (closeChan = "sending" \/ AcceptErrorSent) ~> (listenerClosed = 1 /\ handlerClosed = 1)

\* both triggers occurred and both closes were made
C21_Witness ==
    /\ closeChan = "sending"
    /\ AcceptErrorSent
    /\ listenerClosed = 1
    /\ handlerClosed = 1

\* the handler goroutines that were started and have not finished
ActiveHandlers == {h \in Conns : hpc[h] \in {"handle", "deferDone", "deferDec"}}

\* neither ClientCounter++ nor a handler's deferred decrement is under way
CounterQuiet ==
    /\ lpc \notin {"store", "spawn"}
    /\ \A h \in Conns : hpc[h] \notin {"deferDone", "deferDec"}

\* C22: whenever no increment and no decrement is in progress, ClientCounter
\* equals the number of handler goroutines started and not yet finished, under
\* every interleaving of the accept loop with the handlers; it is 0 once all
\* handlers have finished.
C22_CounterTracksHandlers ==
    CounterQuiet => ClientCounter = Cardinality(ActiveHandlers)

\* the server was shut down: listener closed, handlers closed, ListenAndServe returned
ShutDown == listenerClosed = 1 /\ handlerClosed = 1 /\ lpc = "returned"

\* C23: a stop signal delivered to the process at any time after
\* ListenAndServeWithSignal has started eventually shuts the server down: the
\* listener is closed, handler.Close() is called, and the function returns
\* once the handlers have finished.
C23_SignalShutsDown == signalled ~> ShutDown

\* the caller has called logger.Fatal
FatalCalled == \E k \in 1..Len(called) : called[k] = "FATAL"

\* C24: logger.Fatal stops the program: once a goroutine has called Fatal it
\* executes no further code, so it makes no further logging call.
C24_FatalStopsProgram == [][FatalCalled => called' = called]_vars

\* parseArray has rejected an element header and has not yet returned to parse0
Abandoning ==
    \/ pc = "arraybreak"
    \/ /\ pc = "send"
       /\ \/ ch[1].site \in {"parseArray:186", "parseArray:192"}
          \/ ch[1].site = "parseArray:206" /\ idx < nStrs

\* C25: after a protocol error raised while assembling an array, decoding
\* resumes at the next line with the ordinary top-level dispatch and without
\* resynchronization: nothing is read and the channel is not closed until
\* parse0 is back in its loop right behind the rejected line, and the bytes
\* that follow, the rest of the abandoned array included, are decoded as
\* top-level frames of their own up to the end of the stream.
C25_ResumesAfterArrayError ==
    /\ [](Abandoning => (~closed /\ pos > 0 /\ input[pos] = LF))
    /\ [][Abandoning => (pos' = pos /\ ~closed' /\ (Abandoning' \/ pc' = "loop"))]_vars
    /\ []((/\ Done
           /\ Untruncated
           /\ Len(wire) = 2
           /\ wire[1].kind = "arraybadelem"
           /\ wire[2].kind \in WellFormedKinds)
            => /\ Len(delivered) >= 3
               /\ delivered[1] = ErrPayload(ErrIllegalBulkStringHeader)
               /\ IsData(delivered[Len(delivered) - 1])
               /\ wire[2].kind # "array" =>
                     Canon(delivered[Len(delivered) - 1].Data) = wire[2].vals[1]
               /\ wire[2].kind = "array" =>
                     delivered[Len(delivered) - 1].Data.kind = "MultiBulk"
               /\ Last(delivered) = ErrPayload(ErrEOF)
               /\ \A k \in 1..(Len(delivered) - 1) : delivered[k].Err \notin TransportErrs)

\* "*2\r\n$x\r\n$1\r\na\r\n": the header of the first element was rejected and
\* the second element was decoded as a top-level Bulk
C25_Witness ==
    /\ Done
    /\ Untruncated
    /\ Len(wire) = 2
    /\ wire[1] = BadElemFrame(2, <<>>, <<"$", "x">> \o CRLF)
    /\ wire[2] = BulkFrame(<<"a">>)
    /\ delivered[1] = ErrPayload(ErrIllegalBulkStringHeader)
    /\ delivered[Len(delivered) - 1] = DataPayload(MakeBulkReply(Slice(<<"a">>)))
    /\ sites[Len(sites) - 1] = "parseBulkString:285"

\* the loop of parse0 is about to read a line that is shorter than 3 bytes or
\* whose second-to-last byte is not CR
AtDiscardedLine ==
    /\ pc = "loop"
    /\ TopLine.err = NoErr
    /\ \/ Len(TopLine.line) < 3
       \/ TopLine.line[Len(TopLine.line) - 1] # CR

\* C26: a top-level line shorter than 3 bytes, or whose second-to-last byte is
\* not CR, is silently discarded: the step that reads it sends no Payload,
\* leaves the channel open and leaves the decoder in its loop at the next
\* line; a stream of such a line alone gives only the end-of-stream error, and
\* a frame behind it is decoded as if the line were not there.
C26_ShortLineDiscarded ==
    /\ [][AtDiscardedLine =>
            /\ pos' = TopLine.pos
            /\ pc' = "loop"
            /\ ch' = <<>>
            /\ delivered' = delivered
            /\ ~closed']_vars
    /\ []((Done /\ Untruncated /\ wire # <<>> /\ wire[1].kind = "skip") =>
            /\ Len(wire) = 1 => delivered = <<ErrPayload(ErrEOF)>>
            /\ (Len(wire) = 2 /\ wire[2].kind \in WellFormedKinds \ {"array"}) =>
                  /\ Len(delivered) = 2
                  /\ IsData(delivered[1])
                  /\ Canon(delivered[1].Data) = wire[2].vals[1]
                  /\ delivered[2] = ErrPayload(ErrEOF))

\* the three-byte line "ab\n" was discarded and the bulk frame behind it decoded
C26_Witness ==
    /\ Done
    /\ Untruncated
    /\ Len(wire) = 2
    /\ wire[1] = SkipFrame(<<"a", "b", LF>>)
    /\ wire[2].kind = "bulk"
    /\ Len(delivered) = 2
    /\ IsData(delivered[1])

\* the tokens joined again with one space between neighbours
RECURSIVE JoinSpaces(_)
JoinSpaces(args) ==
    IF Len(args) = 1 THEN args[1].data
    ELSE args[1].data \o <<" ">> \o JoinSpaces(Tail(args))

Spaces(l) == Cardinality({k \in 1..Len(l) : l[k] = " "})

\* the line of an inline frame without its terminator
InlineText(f) == Take(f.bytes, Len(f.bytes) - 2)

\* C27: a line whose first byte is none of + - : $ * is decoded as one
\* MultiBulk whose elements are the pieces of the whole stripped line between
\* single spaces: one more element than the line has spaces, an empty element
\* between two neighbouring spaces, no element absent.
C27_InlineSplitOnSpaces ==
    (wire # <<>> /\ wire[1].kind = "inline" /\ FirstArrived /\ Len(delivered) >= 1) =>
        /\ sites[1] = "parse0:152"
        /\ IsData(delivered[1])
        /\ delivered[1].Data.kind = "MultiBulk"
        /\ LET args == delivered[1].Data.Args
               text == InlineText(wire[1])
           IN  /\ Len(args) = Spaces(text) + 1
               /\ \A k \in 1..Len(args) : ~args[k].isNil /\ Spaces(args[k].data) = 0
               /\ JoinSpaces(args) = text

\* "a  b" gave the three elements "a", "", "b"
C27_Witness ==
    /\ wire # <<>>
    /\ wire[1] = InlineFrame(<<"a", " ", " ", "b">>)
    /\ Len(delivered) >= 1
    /\ delivered[1] =
          DataPayload(MakeMultiBulkReply(<<Slice(<<"a">>), Slice(<<>>), Slice(<<"b">>)>>))

\* parseArray is about to read an element header "$-1"
AtNullElem ==
    /\ pc = "array"
    /\ idx < nStrs
    /\ ReadBytes(pos).err = NoErr
    /\ ReadBytes(pos).line = <<"$", "-", "1">> \o CRLF

\* C28: inside an array an element header "$-1" is decoded as an empty element
\* that is present, not as an absent one, and consumes no body bytes: the step
\* that reads it appends a zero-length element and reads the five bytes of the
\* header line only, so the next element is read right behind the header.
C28_NullElemIsEmpty ==
    /\ [][AtNullElem =>
            /\ pos' = pos + 5
            /\ idx' = idx + 1
            /\ lines' = Append(lines, Slice(<<>>))
            /\ pc' = "array"]_vars
    /\ []((wire # <<>> /\ wire[1].kind = "arraynullelem" /\ FirstArrived
               /\ Len(delivered) >= 1) =>
            /\ IsData(delivered[1])
            /\ delivered[1].Data.kind = "MultiBulk"
            /\ LET args == delivered[1].Data.Args
               IN  /\ wire[1] = NullElemFrame(<<>>) => Last(args) = Slice(<<>>)
                   /\ wire[1] = NullElemFrame(<<<<"a">>>>) =>
                         /\ args[Len(args) - 1] = Slice(<<>>)
                         /\ Last(args) = Slice(<<"a">>))

\* "*2\r\n$-1\r\n$1\r\na\r\n" was decoded: an empty element, then "a"
C28_Witness ==
    /\ wire # <<>>
    /\ wire[1] = NullElemFrame(<<<<"a">>>>)
    /\ Len(delivered) >= 1
    /\ sites[1] = "parseArray:206"
    /\ Last(delivered[1].Data.Args) = Slice(<<"a">>)

\* C29: whenever the decoder task has stopped, also after a fault that the
\* deferred function of parse0 recovered, the Payload channel has been closed,
\* so a consumer receiving from it is not left blocked.
C29_StoppedMeansClosed == Done => closed

\* the task is at the head of the loop of parse0 or of the loop of parseArray
AtLoopHead == pc = "loop" \/ (pc = "array" /\ idx < nStrs)

\* the last Payload delivered is an error Payload and the channel was closed behind it
EndedWithTerminalError ==
    /\ closed
    /\ delivered # <<>>
    /\ IsError(Last(delivered))
    /\ AfterSend(Last(sites), Last(delivered)) = "close"

\* what the task and the consumer have done so far, as a number
Progress ==
    pos + 3 * Len(delivered) + 2 * Len(ch)
        + (IF pc = "arraybreak" THEN 1 ELSE 0)
        + (IF closed THEN 1 ELSE 0)
        + (IF logged THEN 1 ELSE 0)
        + (IF consumerDone THEN 1 ELSE 0)

\* C30: every iteration of the decode loop consumes at least one byte of the
\* source or ends the stream, and so, for every finite input and a consumer
\* that keeps receiving, the decoder eventually delivers a terminal error
\* Payload and closes the channel: every step of the task or the consumer is
\* progress, so the task stops, and when it has stopped the terminal error
\* was delivered and the channel is closed.
C30_EventuallyTerminalError ==
    /\ [][AtLoopHead =>
            \/ pos' > pos
            \/ /\ pc' = "send"
               /\ IsError(ch'[1].p)
               /\ AfterSend(ch'[1].site, ch'[1].p) = "close"]_vars
    /\ [][Progress' > Progress]_vars
    /\ [](Done => EndedWithTerminalError)

\* C31: for a top-level bulk header whose length n parses as an int64 with
\* n >= 0, the read size n+2 does not wrap and nothing faults, also for
\* n = 2^63-1 and n = 2^63-2: the decoder never panics on it, and the Payload
\* it sends for the unit is a Bulk of exactly n bytes or a terminal transport
\* error.
C31_ReadSizeNeverWraps ==
    (/\ wire # <<>>
     /\ wire[1].kind \in {"bulk", "bulkhuge"}
     /\ Len(input) >= BulkHeaderLen(wire[1]))
        => /\ pc # "panic"
           /\ ~logged
           /\ Len(delivered) >= 1 =>
                 \/ /\ wire[1].kind = "bulk"
                    /\ delivered[1] = DataPayload(wire[1].vals[1])
                 \/ /\ IsError(delivered[1])
                    /\ delivered[1].Err \in TransportErrs
                    /\ sites[1] = "parse0:135"
           /\ Done => Len(delivered) >= 1

\* the n bytes of a bulk frame between its header line and its terminator
BodyOnWire(f) == SubSeq(f.bytes, BulkHeaderLen(f) + 1, Len(f.bytes) - 2)

\* C32: bulk decoding is binary-safe: whatever bytes the payload b of "$n\r\n"
\* b "\r\n" holds, CR, LF and type-prefix bytes included, the decoder sends
\* Bulk(b) with b unchanged, has consumed exactly n+2 bytes behind the header
\* when it sends it, and decodes the frame that follows from the byte right
\* after.
C32_BulkBinarySafe ==
    (wire # <<>> /\ wire[1].kind = "bulk" /\ FirstArrived) =>
        /\ (pc = "send" /\ delivered = <<>>) =>
              /\ ch[1].p = DataPayload(MakeBulkReply(Slice(BodyOnWire(wire[1]))))
              /\ pos = BulkHeaderLen(wire[1]) + Len(BodyOnWire(wire[1])) + 2
        /\ Len(delivered) >= 1 =>
              delivered[1] = DataPayload(MakeBulkReply(Slice(BodyOnWire(wire[1]))))
        /\ (Len(wire) = 2 /\ wire[2].kind \in WellFormedKinds \ {"array"} /\ Untruncated
                /\ Len(delivered) >= 2) =>
              /\ IsData(delivered[2])
              /\ Canon(delivered[2].Data) = wire[2].vals[1]

\* the payload "\r\n" was delivered unchanged and the bulk frame behind it decoded
C32_Witness ==
    /\ Len(wire) = 2
    /\ wire[1] = BulkFrame(<<CR, LF>>)
    /\ wire[2].kind = "bulk"
    /\ Untruncated
    /\ Len(delivered) >= 2
    /\ delivered[1] = DataPayload(MakeBulkReply(Slice(<<CR, LF>>)))
    /\ IsData(delivered[2])

\* C33: a Bulk Payload, top-level or as an element of an array, is sent only
\* when the two bytes behind the n payload bytes are exactly CR LF: a body
\* followed by two other bytes never gives a data Payload.
C33_BulkNeedsTerminator ==
    (Len(wire) = 1 /\ wire[1].kind \in {"bulkbadtail", "elembadtail"}) =>
        \A p \in SentPayloads : ~IsData(p)

\* C34: in the raw-bulk sub-mode the line behind the FULLRESYNC status is
\* taken as a header only when its first byte is '$': a line with another
\* first byte is an unrecoverable error, so no Bulk Payload is sent for it,
\* the Payload behind the status reply is an error, and the stream ends there.
C34_RawHeaderNeedsDollar ==
    (Len(wire) = 1 /\ wire[1].kind = "fullresyncnodollar" /\ Untruncated) =>
        /\ \A p \in SentPayloads : IsData(p) => p.Data.kind # "Bulk"
        /\ Len(delivered) >= 2 => IsError(delivered[2])
        /\ Done => (Len(delivered) = 2 /\ closed)

====
